---- MODULE Spec2Model ----
(***************************************************************************)
(* A model of the karma plugin: the vote ledger (table "karma"), the       *)
(* per-recipient total (table "karma_cache") of karma/db.py, and the vote  *)
(* handler of karma/bot.py.                                                *)
(*                                                                         *)
(* An Optional value is a set: {} is None, {x} is the value x.  A table is *)
(* the set of its rows.                                                    *)
(***************************************************************************)
EXTENDS Integers, FiniteSets, Sequences, TLC

\* ------------------------------------------------------------------ bounds
NumUsers == 2
MaxEvents == 3
MaxClock == 1
MaxOps == 3
MaxConcEvents == 4

Users == 1..NumUsers
Rooms == {"!room"}
\* Event ids are given in the order the events are sent.
EventIds == 1..MaxEvents

\* upvote / downvote pass +1 / -1
Values == {1, -1}

\* ------------------------------------------------------------------ state
VARIABLES
    karma,          \* table karma: the set of vote rows
    karma_cache,    \* table karma_cache: the set of [user_id, karma] rows
    clock,          \* time(), in milliseconds
    ops,            \* number of library calls made so far
    last,           \* the last library call: what was called, on what, how it ended
    democracy,      \* config["democracy"]
    filter,         \* config["filter"]
    timeline,       \* the events of the rooms, in the order they were sent
    req,            \* per vote event: where its handler is
    redacted,       \* the events the protocol layer has reported as redacted
    ever_voted      \* the users a row of table karma was ever given to

vars == <<karma, karma_cache, clock, ops, last, democracy, filter, timeline, req, redacted,
          ever_voted>>

\* ------------------------------------------------------------------ db.py
\* The primary key of a karma row.
SameKey(row, self) ==
    /\ row.given_to = self.given_to
    /\ row.given_by = self.given_by
    /\ row.given_in = self.given_in
    /\ row.given_for = self.given_for

RECURSIVE SumValues(_)
SumValues(rows) ==
    IF rows = {} THEN 0
    ELSE LET r == CHOOSE x \in rows : TRUE
         IN r.value + SumValues(rows \ {r})

\* KarmaCache.get_karma: the karma of the user's row, or None.
get_karma(cache, user_id) ==
    {row.karma : row \in {x \in cache : x.user_id = user_id}}

\* KarmaCache._set_karma leaving no row for a karma of 0.
set_karma_unless_zero(cache, user_id, value) ==
    IF value = 0
    THEN {x \in cache : x.user_id # user_id}
    ELSE {x \in cache : x.user_id # user_id} \cup {[user_id |-> user_id, karma |-> value]}

\* KarmaCache._set_karma: delete the user's row, insert a new one.
set_karma(cache, user_id, value) ==
    {x \in cache : x.user_id # user_id} \cup {[user_id |-> user_id, karma |-> value]}

\* Karma.all: the rows given to the user.
KarmaAll(rows, user_id) == {x \in rows : x.given_to = user_id}

\* Karma.get looking the row up with voter and recipient exchanged.
KarmaGetSwapped(rows, given_to, given_by, given_in, given_for) ==
    {x \in rows : /\ x.given_to = given_by
                  /\ x.given_by = given_to
                  /\ x.given_in = given_in
                  /\ x.given_for = given_for}

\* Karma.get: the row with that key, or None.
KarmaGet(rows, given_to, given_by, given_in, given_for) ==
    {x \in rows : /\ x.given_to = given_to
                  /\ x.given_by = given_by
                  /\ x.given_in = given_in
                  /\ x.given_for = given_for}

\* KarmaCache.update storing value_diff instead of adding it.
KarmaCacheUpdateOverwrite(cache, user_id, value_diff, ignore_if_not_exist) ==
    LET existing == {x \in cache : x.user_id = user_id}
    IN IF existing # {}
       THEN {x \in cache : x.user_id # user_id}
                \cup {[user_id |-> user_id, karma |-> value_diff]}
       ELSE IF ignore_if_not_exist
            THEN cache
            ELSE cache \cup {[user_id |-> user_id, karma |-> value_diff]}

\* KarmaCache.update: add value_diff to the user's row; with no row, insert
\* one holding value_diff unless ignore_if_not_exist.
KarmaCacheUpdate(cache, user_id, value_diff, ignore_if_not_exist) ==
    LET existing == {x \in cache : x.user_id = user_id}
    IN IF existing # {}
       THEN LET new_karma == (CHOOSE x \in existing : TRUE).karma + value_diff
            IN {x \in cache : x.user_id # user_id}
                   \cup {[user_id |-> user_id, karma |-> new_karma]}
       ELSE IF ignore_if_not_exist
            THEN cache
            ELSE cache \cup {[user_id |-> user_id, karma |-> value_diff]}

\* Statements that commit one by one: what ran before the exception stays.
TransactAutocommit(before, work, raised) ==
    work

\* `with db.begin() as txn`: commit what the block did when it ends normally,
\* roll back to the state before it when it raises.
Transact(before, work, raised) ==
    IF raised THEN before ELSE work

\* The faults a transaction can meet: none, one raised by the statement on
\* table karma, one raised by the statement on table karma_cache.
Faults == {"none", "ledger", "cache"}

\* Karma.insert.  db is [karma, cache]; the result is [db, raised].
KarmaInsert(db, self, now, fault) ==
    LET row == [self EXCEPT !.given_at = now]
        pk_conflict == \E x \in db.karma : SameKey(x, row)
        db1 == [db EXCEPT !.karma = @ \cup {row}]
        db2 == [db1 EXCEPT !.cache = KarmaCacheUpdate(@, row.given_to, row.value, FALSE)]
    IN IF fault = "ledger" \/ pk_conflict
       THEN [db |-> Transact(db, db, TRUE), raised |-> TRUE]
       ELSE IF fault = "cache"
            THEN [db |-> Transact(db, db1, TRUE), raised |-> TRUE]
            ELSE [db |-> Transact(db, db2, FALSE), raised |-> FALSE]

\* Karma.update passing new_value, not the difference, to the cache.
KarmaUpdateByNewValue(db, self, new_value, now, fault) ==
    LET db1 == [db EXCEPT !.karma =
                   {IF SameKey(x, self)
                    THEN [x EXCEPT !.given_from = self.given_from,
                                   !.value = new_value,
                                   !.given_at = now]
                    ELSE x : x \in @}]
        db2 == [db1 EXCEPT !.cache = KarmaCacheUpdate(@, self.given_to, new_value, FALSE)]
    IN IF fault = "ledger"
       THEN [db |-> Transact(db, db, TRUE), raised |-> TRUE]
       ELSE IF fault = "cache"
            THEN [db |-> Transact(db, db1, TRUE), raised |-> TRUE]
            ELSE [db |-> Transact(db, db2, FALSE), raised |-> FALSE]

\* Karma.update writing the new value as one more row.
KarmaUpdateAddsRow(db, self, new_value, now, fault) ==
    LET value_diff == new_value - self.value
        db1 == [db EXCEPT !.karma =
                   @ \cup {[self EXCEPT !.value = new_value, !.given_at = now]}]
        db2 == [db1 EXCEPT !.cache = KarmaCacheUpdate(@, self.given_to, value_diff, FALSE)]
    IN IF fault = "ledger"
       THEN [db |-> Transact(db, db, TRUE), raised |-> TRUE]
       ELSE IF fault = "cache"
            THEN [db |-> Transact(db, db1, TRUE), raised |-> TRUE]
            ELSE [db |-> Transact(db, db2, FALSE), raised |-> FALSE]

\* Karma.update.
KarmaUpdate(db, self, new_value, now, fault) ==
    LET value_diff == new_value - self.value
        db1 == [db EXCEPT !.karma =
                   {IF SameKey(x, self)
                    THEN [x EXCEPT !.given_from = self.given_from,
                                   !.value = new_value,
                                   !.given_at = now]
                    ELSE x : x \in @}]
        db2 == [db1 EXCEPT !.cache = KarmaCacheUpdate(@, self.given_to, value_diff, FALSE)]
    IN IF fault = "ledger"
       THEN [db |-> Transact(db, db, TRUE), raised |-> TRUE]
       ELSE IF fault = "cache"
            THEN [db |-> Transact(db, db1, TRUE), raised |-> TRUE]
            ELSE [db |-> Transact(db, db2, FALSE), raised |-> FALSE]

\* Karma.delete without ignore_if_not_exist.
KarmaDeleteCreatesRow(db, self, fault) ==
    LET db1 == [db EXCEPT !.karma = {x \in @ : ~SameKey(x, self)}]
        db2 == [db1 EXCEPT !.cache = KarmaCacheUpdate(@, self.given_to, self.value, FALSE)]
    IN IF fault = "ledger"
       THEN [db |-> Transact(db, db, TRUE), raised |-> TRUE]
       ELSE IF fault = "cache"
            THEN [db |-> Transact(db, db1, TRUE), raised |-> TRUE]
            ELSE [db |-> Transact(db, db2, FALSE), raised |-> FALSE]

\* Karma.delete.
KarmaDelete(db, self, fault) ==
    LET db1 == [db EXCEPT !.karma = {x \in @ : ~SameKey(x, self)}]
        db2 == [db1 EXCEPT !.cache = KarmaCacheUpdate(@, self.given_to, self.value, TRUE)]
    IN IF fault = "ledger"
       THEN [db |-> Transact(db, db, TRUE), raised |-> TRUE]
       ELSE IF fault = "cache"
            THEN [db |-> Transact(db, db1, TRUE), raised |-> TRUE]
            ELSE [db |-> Transact(db, db2, FALSE), raised |-> FALSE]

\* The rows of karma_cache in the order `ORDER BY karma DESC` can return
\* them: every order with no row before one of greater karma.  The order of
\* rows of equal karma is the database's choice.
OrderByKarmaDesc(cache) ==
    {ord \in [1..Cardinality(cache) -> cache] :
        /\ \A i, j \in 1..Cardinality(cache) : i # j => ord[i] # ord[j]
        /\ \A i, j \in 1..Cardinality(cache) : i < j => ord[i].karma >= ord[j].karma}

\* The loop of find_index_from_top, i being its counter after `i += 1`.
RECURSIVE ScanFromTop(_, _, _)
ScanFromTop(ord, i, user_id) ==
    IF i > Len(ord) THEN -1
    ELSE IF ord[i].user_id = user_id THEN i
         ELSE ScanFromTop(ord, i + 1, user_id)

\* KarmaCache.find_index_from_top counting from 0.
find_index_from_zero(cache, user_id) ==
    {IF ScanFromTop(ord, 1, user_id) = -1 THEN -1 ELSE ScanFromTop(ord, 1, user_id) - 1 :
        ord \in OrderByKarmaDesc(cache)}

\* KarmaCache.find_index_from_top: the values it can return, one for each
\* order the query can return the rows in.
find_index_from_top(cache, user_id) ==
    {ScanFromTop(ord, 1, user_id) : ord \in OrderByKarmaDesc(cache)}

\* KarmaCache.recalculate adding the sum to the row instead of storing it.
KarmaCacheRecalculateAdds(db, user_id, fault) ==
    LET karma_sum == SumValues(KarmaAll(db.karma, user_id))
        db1 == [db EXCEPT !.cache = {x \in @ : x.user_id # user_id}]
        db2 == [db EXCEPT !.cache = KarmaCacheUpdate(@, user_id, karma_sum, FALSE)]
    IN IF fault = "ledger"
       THEN [db |-> Transact(db, db, TRUE), raised |-> TRUE]
       ELSE IF fault = "cache"
            THEN [db |-> Transact(db, db1, TRUE), raised |-> TRUE]
            ELSE [db |-> Transact(db, db2, FALSE), raised |-> FALSE]

\* KarmaCache.recalculate: in one transaction, the sum of Karma.all(user_id)
\* goes to set_karma, which deletes the user's row and inserts the new one.
\* The fault "ledger" is raised by Karma.all, "cache" by the insert.
KarmaCacheRecalculate(db, user_id, fault) ==
    LET karma_sum == SumValues(KarmaAll(db.karma, user_id))
        db1 == [db EXCEPT !.cache = {x \in @ : x.user_id # user_id}]
        db2 == [db EXCEPT !.cache = set_karma(@, user_id, karma_sum)]
    IN IF fault = "ledger"
       THEN [db |-> Transact(db, db, TRUE), raised |-> TRUE]
       ELSE IF fault = "cache"
            THEN [db |-> Transact(db, db1, TRUE), raised |-> TRUE]
            ELSE [db |-> Transact(db, db2, FALSE), raised |-> FALSE]

\* ------------------------------------------------------------------ library calls
\* The Karma objects a caller can construct: a vote event is sent after the
\* event it replies to.
\* content is the text kept of the event voted on: every event has its own.
Instances ==
    {i \in [given_to : Users, given_by : Users, given_in : Rooms, given_for : EventIds,
            given_from : EventIds, given_at : {0}, value : Values, content : EventIds] :
        /\ i.given_for < i.given_from
        /\ i.content = i.given_for}

\* before is what get_karma returned before a recalculate, None for the other
\* calls.
NoCall == [op |-> "none", self |-> {}, new_value |-> 0, fault |-> "none", raised |-> FALSE,
           before |-> {}]

DB == [karma |-> karma, cache |-> karma_cache]

Commit(res, call) ==
    /\ karma' = res.db.karma
    /\ karma_cache' = res.db.cache
    /\ last' = [call EXCEPT !.raised = res.raised]
    /\ ops' = ops + 1
    /\ ever_voted' = ever_voted \cup {x.given_to : x \in res.db.karma}
    /\ UNCHANGED <<clock, democracy, filter, timeline, req, redacted>>

Tick ==
    /\ clock < MaxClock
    /\ clock' = clock + 1
    /\ UNCHANGED <<karma, karma_cache, ops, last, democracy, filter, timeline, req, redacted,
                 ever_voted>>

\* Karma(...).insert() on a newly constructed object.
Insert ==
    /\ ops < MaxOps
    /\ \E self \in Instances, fault \in Faults :
          Commit(KarmaInsert(DB, self, clock, fault),
                 [op |-> "insert", self |-> {self}, new_value |-> self.value,
                  fault |-> fault, raised |-> FALSE,
                  before |-> {}])

\* Karma.get(...).update(new_value) with another value, as KarmaBot.vote calls it.
Update ==
    /\ ops < MaxOps
    /\ \E self \in karma, new_value \in Values, fault \in Faults :
          /\ new_value # self.value
          /\ Commit(KarmaUpdate(DB, self, new_value, clock, fault),
                    [op |-> "update", self |-> {self}, new_value |-> new_value,
                     fault |-> fault, raised |-> FALSE,
                  before |-> {}])

\* Karma.get(...).delete().
Delete ==
    /\ ops < MaxOps
    /\ \E self \in karma, fault \in Faults :
          Commit(KarmaDelete(DB, self, fault),
                 [op |-> "delete", self |-> {self}, new_value |-> 0,
                  fault |-> fault, raised |-> FALSE,
                  before |-> {}])

\* KarmaCache.recalculate(user_id).
Recalculate ==
    /\ ops < MaxOps
    /\ \E user_id \in Users, fault \in Faults :
          Commit(KarmaCacheRecalculate(DB, user_id, fault),
                 [op |-> "recalculate", self |-> {}, new_value |-> user_id,
                  fault |-> fault, raised |-> FALSE,
                  before |-> get_karma(karma_cache, user_id)])

\* Karma(...).delete() on an object that was never inserted.
DeleteDetached ==
    /\ ops < MaxOps
    /\ \E self \in Instances, fault \in Faults :
          /\ ~\E x \in karma : SameKey(x, self)
          /\ Commit(KarmaDelete(DB, self, fault),
                    [op |-> "delete_detached", self |-> {self}, new_value |-> 0,
                     fault |-> fault, raised |-> FALSE,
                  before |-> {}])

\* The command handlers KarmaBot.start registers.
Handlers ==
    {"xyz.maubot.karma.up", "xyz.maubot.karma.down", "upvote", "downvote",
     "karma $list", "karma $user", "karma stats", "karma", "karma breakdown",
     "karma export"}

\* The protocol layer reports that event e was redacted: the plugin has no
\* handler for it, and nothing runs.
Redaction ==
    /\ ops < MaxOps
    /\ "m.room.redaction" \notin Handlers
    /\ \E e \in EventIds :
          /\ redacted' = redacted \cup {e}
          /\ last' = [op |-> "redaction", self |-> {}, new_value |-> e,
                      fault |-> "none", raised |-> FALSE,
                  before |-> {}]
    /\ ops' = ops + 1
    /\ UNCHANGED <<karma, karma_cache, clock, democracy, filter, timeline, req, ever_voted>>

Init ==
    /\ karma = {}
    /\ karma_cache = {}
    /\ clock = 0
    /\ ops = 0
    /\ last = NoCall
    /\ democracy = TRUE
    /\ filter = {}
    /\ timeline = <<>>
    /\ req = <<>>
    /\ redacted = {}
    /\ ever_voted = {}

Next ==
    \/ Tick
    \/ Insert
    \/ Update
    \/ Delete
    \/ Recalculate

Spec == Init /\ [][Next]_vars

\* ------------------------------------------------------------------ bot.py
\* An event of the timeline is [event_id, sender, room_id, reply_to, value,
\* body]; its event_id is its place in the timeline.  value is 0 for a message
\* that is no command.  The id 0 is the id of no event of the room.
NoEvent == 0

\* Karma.is_vote_event: the event is the origin of some row.
is_vote_event(rows, event_id) ==
    \E x \in rows : x.given_from = event_id

\* client.get_event: the event of the room with that id, or None.
get_event(events, room_id, event_id) ==
    IF event_id \in 1..Len(events) /\ events[event_id].room_id = room_id
    THEN {events[event_id]}
    ELSE {}

\* KarmaBot.parse_content: the text of a message event.
parse_content(evt) == evt.body

\* Karma.get_karma(user_id).total as KarmaBot reads it: the user's total, or
\* None for a user with no cache row.
KarmaTotal(cache, user_id) == get_karma(cache, user_id)

\* Karma.find_index_from_top as KarmaBot calls it: the position from the top,
\* counted from 1, or the sentinel -1.
PositionFromTop(cache, user_id) == find_index_from_top(cache, user_id)

\* KarmaBot.view_karma: the replies it can give about the user.  index is
\* what find_index_from_top returned, shown is the number the reply gives
\* after "#": index + 1, or None when that is 0 and the reply says "∞".
view_karma(cache, mxid) ==
    IF KarmaTotal(cache, mxid) = {}
    THEN {[no_karma |-> TRUE, total |-> {}, index |-> 0, shown |-> {}]}
    ELSE {[no_karma |-> FALSE, total |-> KarmaTotal(cache, mxid), index |-> index,
           shown |-> IF index + 1 # 0 THEN {index + 1} ELSE {}] :
             index \in PositionFromTop(cache, mxid)}

\* KarmaBot.view_own_karma: view_karma about the sender.
view_own_karma(cache, evt) == view_karma(cache, evt.sender)

\* KarmaBot.vote without the check of is_vote_event.
VoteChecksNoVoteCheck(rows, dem, flt, evt) ==
    IF evt.reply_to = {}
    THEN "no_target"
    ELSE LET in_filter == evt.sender \in flt
         IN IF dem = in_filter
            THEN "not_allowed"
            ELSE "get_event"

\* KarmaBot.vote letting pass whom the filter excludes, and only them.
VoteChecksFilterInverted(rows, dem, flt, evt) ==
    IF evt.reply_to = {}
    THEN "no_target"
    ELSE LET in_filter == evt.sender \in flt
         IN IF dem # in_filter
            THEN "not_allowed"
            ELSE IF \E target \in evt.reply_to : is_vote_event(rows, target)
                 THEN "vote_on_vote"
                 ELSE "get_event"

\* KarmaBot.vote up to `await self.client.get_event`: the outcome it returns
\* with, or "get_event" when it goes on to resolve the target.
VoteChecks(rows, dem, flt, evt) ==
    IF evt.reply_to = {}
    THEN "no_target"
    ELSE LET in_filter == evt.sender \in flt
         IN IF dem = in_filter
            THEN "not_allowed"
            ELSE IF \E target \in evt.reply_to : is_vote_event(rows, target)
                 THEN "vote_on_vote"
                 ELSE "get_event"

\* KarmaBot.vote without the check of a vote for oneself.
VoteLookupNoSelfCheck(rows, evt, karma_target) ==
    IF karma_target = {}
    THEN [outcome |-> "not_found", existing |-> {}]
    ELSE LET kt == CHOOSE x \in karma_target : TRUE
         IN [outcome |-> "lookup",
             existing |-> KarmaGet(rows, kt.sender, evt.sender, evt.room_id,
                                   kt.event_id)]

\* KarmaBot.vote from the return of get_event to the return of Karma.get:
\* [outcome, existing], where the outcome is the reply vote returns with, or
\* "lookup" when it goes on with the row Karma.get returned.
VoteLookup(rows, evt, karma_target) ==
    IF karma_target = {}
    THEN [outcome |-> "not_found", existing |-> {}]
    ELSE LET kt == CHOOSE x \in karma_target : TRUE
         IN IF kt.sender = evt.sender /\ evt.value > 0
            THEN [outcome |-> "self_upvote", existing |-> {}]
            ELSE [outcome |-> "lookup",
                  existing |-> KarmaGet(rows, kt.sender, evt.sender, evt.room_id,
                                        kt.event_id)]

\* KarmaBot.vote making the voting event the origin of the row it updates.
VoteMutateNewOrigin(db, evt, kt, existing, now, fault) ==
    IF existing # {}
    THEN LET ex == CHOOSE x \in existing : TRUE
         IN IF ex.value = evt.value
            THEN [db |-> db, outcome |-> "duplicate"]
            ELSE LET res == KarmaUpdate(db, [ex EXCEPT !.given_from = evt.event_id],
                                        evt.value, now, fault)
                 IN [db |-> res.db,
                     outcome |-> IF res.raised THEN "failed" ELSE "updated"]
    ELSE LET new == [given_to |-> kt.sender, given_by |-> evt.sender,
                     given_in |-> evt.room_id, given_for |-> kt.event_id,
                     given_from |-> evt.event_id, given_at |-> 0,
                     value |-> evt.value, content |-> parse_content(kt)]
             res == KarmaInsert(db, new, now, fault)
         IN [db |-> res.db,
             outcome |-> IF res.raised THEN "failed" ELSE "inserted"]

\* KarmaBot.vote going on to update after the reply to a vote already cast.
VoteMutateDuplicateUpdates(db, evt, kt, existing, now, fault) ==
    IF existing # {}
    THEN LET ex == CHOOSE x \in existing : TRUE
             res == KarmaUpdate(db, ex, evt.value, now, fault)
         IN IF ex.value = evt.value
            THEN [db |-> res.db, outcome |-> "duplicate"]
            ELSE [db |-> res.db,
                  outcome |-> IF res.raised THEN "failed" ELSE "updated"]
    ELSE LET new == [given_to |-> kt.sender, given_by |-> evt.sender,
                     given_in |-> evt.room_id, given_for |-> kt.event_id,
                     given_from |-> evt.event_id, given_at |-> 0,
                     value |-> evt.value, content |-> parse_content(kt)]
             res == KarmaInsert(db, new, now, fault)
         IN [db |-> res.db,
             outcome |-> IF res.raised THEN "failed" ELSE "inserted"]

\* KarmaBot.vote from the return of Karma.get to the end of the transaction.
\* The result is [db, outcome].
VoteMutate(db, evt, kt, existing, now, fault) ==
    IF existing # {}
    THEN LET ex == CHOOSE x \in existing : TRUE
         IN IF ex.value = evt.value
            THEN [db |-> db, outcome |-> "duplicate"]
            ELSE LET res == KarmaUpdate(db, ex, evt.value, now, fault)
                 IN [db |-> res.db,
                     outcome |-> IF res.raised THEN "failed" ELSE "updated"]
    ELSE LET new == [given_to |-> kt.sender, given_by |-> evt.sender,
                     given_in |-> evt.room_id, given_for |-> kt.event_id,
                     given_from |-> evt.event_id, given_at |-> 0,
                     value |-> evt.value, content |-> parse_content(kt)]
             res == KarmaInsert(db, new, now, fault)
         IN [db |-> res.db,
             outcome |-> IF res.raised THEN "failed" ELSE "inserted"]

\* KarmaBot.vote from the return of get_event to the end of the transaction.
\* The result is [db, outcome].
VoteApply(db, evt, karma_target, now, fault) ==
    LET found == VoteLookup(db.karma, evt, karma_target)
    IN IF found.outcome # "lookup"
       THEN [db |-> db, outcome |-> found.outcome]
       ELSE VoteMutate(db, evt, CHOOSE x \in karma_target : TRUE, found.existing,
                       now, fault)

\* KarmaBot.vote going on to evt.mark_read() after the reply to a vote
\* already cast, too.
AfterApplyAlsoDuplicate(outcome) ==
    IF outcome \in {"inserted", "updated", "duplicate"} THEN "mark_read" ELSE "done"

\* Where vote goes after the transaction: to evt.mark_read() when it inserted
\* or updated, to its end when it returned or the transaction raised.
AfterApply(outcome) ==
    IF outcome \in {"inserted", "updated"} THEN "mark_read" ELSE "done"

\* A user sends a message that is no command.
SendMessage ==
    /\ Len(timeline) < MaxEvents
    /\ \E u \in Users, room \in Rooms :
          timeline' = Append(timeline, [event_id |-> Len(timeline) + 1, sender |-> u,
                                        room_id |-> room, reply_to |-> {},
                                        value |-> 0, body |-> Len(timeline) + 1])
    /\ req' = Append(req, [pc |-> "none", outcome |-> "none"])
    /\ UNCHANGED <<karma, karma_cache, clock, ops, last, democracy, filter, redacted,
                   ever_voted>>

\* A user sends an upvote or a downvote, in reply to an event or to none: the
\* client calls upvote or downvote, which call vote.
SendVote ==
    /\ Len(timeline) < MaxEvents
    /\ \E u \in Users, room \in Rooms, value \in Values,
          reply_to \in {{}} \cup {{t} : t \in {NoEvent} \cup (1..Len(timeline))} :
          timeline' = Append(timeline, [event_id |-> Len(timeline) + 1, sender |-> u,
                                        room_id |-> room,
                                        reply_to |-> reply_to, value |-> value,
                                        body |-> Len(timeline) + 1])
    /\ req' = Append(req, [pc |-> "vote", outcome |-> "none"])
    /\ UNCHANGED <<karma, karma_cache, clock, ops, last, democracy, filter, redacted,
                   ever_voted>>

\* vote, from its start to its first return or to the await of get_event.
VoteStart ==
    \E e \in 1..Len(timeline) :
        /\ req[e].pc = "vote"
        /\ LET out == VoteChecks(karma, democracy, filter, timeline[e])
           IN req' = [req EXCEPT ![e] = IF out = "get_event"
                                        THEN [pc |-> "get_event", outcome |-> "none"]
                                        ELSE [pc |-> "done", outcome |-> out]]
        /\ UNCHANGED <<karma, karma_cache, clock, ops, last, democracy, filter,
                       timeline, redacted, ever_voted>>

\* vote, from the return of get_event to its next return or to the await of
\* mark_read: nothing awaits between the lookup and the end of the transaction,
\* so no other handler runs in between.  An exception of the transaction ends
\* the handler.
VoteResolved ==
    \E e \in 1..Len(timeline), fault \in Faults :
        /\ req[e].pc = "get_event"
        /\ LET evt == timeline[e]
               target == CHOOSE t \in evt.reply_to : TRUE
               res == VoteApply(DB, evt, get_event(timeline, evt.room_id, target),
                                clock, fault)
           IN /\ karma' = res.db.karma
              /\ karma_cache' = res.db.cache
              /\ req' = [req EXCEPT ![e] = [pc |-> AfterApply(res.outcome),
                                            outcome |-> res.outcome]]
              /\ ever_voted' = ever_voted \cup {x.given_to : x \in res.db.karma}
        /\ UNCHANGED <<clock, ops, last, democracy, filter, timeline, redacted>>

\* evt.mark_read().
VoteAck ==
    \E e \in 1..Len(timeline) :
        /\ req[e].pc = "mark_read"
        /\ req' = [req EXCEPT ![e].pc = "read"]
        /\ UNCHANGED <<karma, karma_cache, clock, ops, last, democracy, filter,
                       timeline, redacted, ever_voted>>

\* The protocol layer reports that an event of the room was redacted: the
\* plugin has no handler for it, and nothing runs.
Redact ==
    /\ "m.room.redaction" \notin Handlers
    /\ \E e \in 1..Len(timeline) :
          /\ e \notin redacted
          /\ redacted' = redacted \cup {e}
    /\ UNCHANGED <<karma, karma_cache, clock, ops, last, democracy, filter, timeline, req,
                   ever_voted>>

InitBot ==
    /\ karma = {}
    /\ karma_cache = {}
    /\ clock = 0
    /\ ops = 0
    /\ last = NoCall
    /\ democracy \in BOOLEAN
    /\ filter \in SUBSET Users
    /\ timeline = <<>>
    /\ req = <<>>
    /\ redacted = {}
    /\ ever_voted = {}

NextBot ==
    \/ Tick
    \/ SendMessage
    \/ SendVote
    \/ VoteStart
    \/ VoteResolved
    \/ VoteAck

SpecBot == InitBot /\ [][NextBot]_vars

\* The plugin under the configuration it ships with, and the protocol's
\* redactions.
InitRedact ==
    /\ InitBot
    /\ democracy = TRUE
    /\ filter = {}

NextRedact ==
    \/ NextBot
    \/ Redact

SpecRedact == InitRedact /\ [][NextRedact]_vars

\* The library calls on any object, and the protocol's notifications.
NextStore ==
    \/ Next
    \/ DeleteDetached
    \/ Redaction

SpecStore == Init /\ [][NextStore]_vars

\* ------------------------------------------------------------------ bot.py, lookup and transaction apart
\* The handler with the lookup (Karma.get) and the transaction as two steps,
\* between which other handlers run: what separates them is that Karma.get
\* reads outside the transaction that writes.  The row Karma.get returned is
\* kept in req[e].existing until the transaction.

\* The retraction of the event origin: Karma.delete of the row whose
\* given_from is origin, nothing when there is none.
DeleteByOrigin(db, origin) ==
    LET found == {x \in db.karma : x.given_from = origin}
    IN IF found = {}
       THEN db
       ELSE KarmaDelete(db, CHOOSE x \in found : TRUE, "none").db

\* The event the vote event e replies to, or None.
TargetOf(e) ==
    UNION {get_event(timeline, timeline[e].room_id, t) : t \in timeline[e].reply_to}

\* A message of user u, one vote on it that was inserted and marked read.
InitConc ==
    /\ \E u, v \in Users, room \in Rooms, value \in Values :
          /\ ~(u = v /\ value > 0)
          /\ timeline = <<[event_id |-> 1, sender |-> u, room_id |-> room,
                           reply_to |-> {}, value |-> 0, body |-> 1],
                          [event_id |-> 2, sender |-> v, room_id |-> room,
                           reply_to |-> {1}, value |-> value, body |-> 2]>>
          /\ karma = {[given_to |-> u, given_by |-> v, given_in |-> room,
                       given_for |-> 1, given_from |-> 2, given_at |-> 0,
                       value |-> value, content |-> 1]}
          /\ karma_cache = {[user_id |-> u, karma |-> value]}
          /\ ever_voted = {u}
    /\ req = <<[pc |-> "none", outcome |-> "none"], [pc |-> "read", outcome |-> "inserted"]>>
    /\ clock = 0
    /\ ops = 0
    /\ last = NoCall
    /\ democracy = TRUE
    /\ filter = {}
    /\ redacted = {}

\* A user sends an upvote or a downvote in reply to an event.
SendVoteConc ==
    /\ Len(timeline) < MaxConcEvents
    /\ \E u \in Users, room \in Rooms, value \in Values, t \in 1..Len(timeline) :
          timeline' = Append(timeline, [event_id |-> Len(timeline) + 1, sender |-> u,
                                        room_id |-> room,
                                        reply_to |-> {t}, value |-> value,
                                        body |-> Len(timeline) + 1])
    /\ req' = Append(req, [pc |-> "vote", outcome |-> "none"])
    /\ UNCHANGED <<karma, karma_cache, clock, ops, last, democracy, filter, redacted,
                   ever_voted>>

\* vote, from the return of get_event to its next return or to the return of
\* Karma.get.
VoteLookupStep ==
    \E e \in 1..Len(timeline) :
        /\ req[e].pc = "get_event"
        /\ LET evt == timeline[e]
               target == CHOOSE t \in evt.reply_to : TRUE
               found == VoteLookup(karma, evt, get_event(timeline, evt.room_id, target))
           IN req' = [req EXCEPT ![e] =
                         IF found.outcome = "lookup"
                         THEN [pc |-> "mutate", outcome |-> "none",
                               existing |-> found.existing]
                         ELSE [pc |-> "done", outcome |-> found.outcome]]
        /\ UNCHANGED <<karma, karma_cache, clock, ops, last, democracy, filter,
                       timeline, redacted, ever_voted>>

\* vote, from the return of Karma.get to its next return or to the await of
\* mark_read.
VoteMutateStep ==
    \E e \in 1..Len(timeline), fault \in Faults :
        /\ req[e].pc = "mutate"
        /\ LET evt == timeline[e]
               kt == CHOOSE x \in TargetOf(e) : TRUE
               res == VoteMutate(DB, evt, kt, req[e].existing, clock, fault)
           IN /\ karma' = res.db.karma
              /\ karma_cache' = res.db.cache
              /\ req' = [req EXCEPT ![e] = [pc |-> AfterApply(res.outcome),
                                            outcome |-> res.outcome]]
              /\ ever_voted' = ever_voted \cup {x.given_to : x \in res.db.karma}
        /\ UNCHANGED <<clock, ops, last, democracy, filter, timeline, redacted>>

NextConc ==
    \/ Tick
    \/ SendVoteConc
    \/ VoteStart
    \/ VoteLookupStep
    \/ VoteMutateStep
    \/ VoteAck

SpecConc == InitConc /\ [][NextConc]_vars

\* ------------------------------------------------------------------ claims
\* A step that is a call (Tick is not).
CallStep == ops' = ops + 1

Mutations == {"insert", "update", "delete"}

\* C1: for every recipient R the cached total get_karma(R) is the sum of the
\* values of the ledger's rows given to R (no row: no votes).
C1_CacheEqualsLedgerSum ==
    \A R \in Users :
        LET total == get_karma(karma_cache, R)
            sum == SumValues(KarmaAll(karma, R))
        IN IF total = {} THEN sum = 0 ELSE total = {sum}

\* C2: an insert, update or delete that raises leaves both tables as they
\* were; one that does not raise changes both.
C2_AllOrNothing ==
    [][(CallStep /\ last'.op \in Mutations) =>
          /\ last'.raised => (karma' = karma /\ karma_cache' = karma_cache)
          /\ ~last'.raised => (karma' # karma /\ karma_cache' # karma_cache)]_vars

\* A transaction rolled back after its ledger statement had run.
C2_Witness ==
    /\ last.op \in Mutations
    /\ last.raised
    /\ last.fault = "cache"

\* C3: deleting a row of value v given to R removes the row and takes R's
\* total from t to t - v.
C3_DeleteDecrements ==
    [][(CallStep /\ last'.op = "delete" /\ ~last'.raised) =>
          \A self \in last'.self :
              /\ self \notin karma'
              /\ get_karma(karma_cache', self.given_to)
                     = {t - self.value : t \in get_karma(karma_cache, self.given_to)}]_vars

\* C8: a redaction of an event that is no row's origin, and a delete of an
\* object whose recipient has no cache row, leave the cache as it was.
C8_NoOpOnCache ==
    [][(/\ CallStep
        /\ \/ /\ last'.op = "redaction"
              /\ ~\E x \in karma : x.given_from = last'.new_value
           \/ /\ last'.op \in {"delete", "delete_detached"}
              /\ \A self \in last'.self : get_karma(karma_cache, self.given_to) = {})
       => karma_cache' = karma_cache]_vars

\* A delete was committed for a recipient that had, and has, no cache row.
C8_Witness ==
    /\ last.op = "delete_detached"
    /\ ~last.raised
    /\ \A self \in last.self : get_karma(karma_cache, self.given_to) = {}

\* The handler of event e runs vote from the return of get_event.
Resolves(e) ==
    /\ e \in 1..Len(timeline)
    /\ req[e].pc = "get_event"
    /\ req'[e].pc # "get_event"

\* The handler of event e runs vote from its start.
Starts(e) ==
    /\ e \in 1..Len(timeline)
    /\ req[e].pc = "vote"
    /\ req'[e].pc # "vote"

\* The rows of the voter of event e on the event that e replies to.
OwnRows(rows, e) ==
    {x \in rows : /\ x.given_by = timeline[e].sender
                  /\ x.given_in = timeline[e].room_id
                  /\ {x.given_for} = timeline[e].reply_to}

Total(cache, R) == get_karma(cache, R)

\* C4: a vote of value new by a voter whose row on the subject holds another
\* value old sets the row's value to new, changes the recipient's total by
\* new - old, and adds no row.
C4_RevoteAppliesDifference ==
    [][\A e \in 1..Len(timeline) :
          (Resolves(e) /\ req'[e].outcome = "updated") =>
              \A old \in OwnRows(karma, e) :
                  /\ old.value # timeline[e].value
                  /\ OwnRows(karma', e)
                         = {[old EXCEPT !.value = timeline[e].value, !.given_at = clock]}
                  /\ Cardinality(karma') = Cardinality(karma)
                  /\ Total(karma_cache', old.given_to)
                         = {t + timeline[e].value - old.value :
                               t \in Total(karma_cache, old.given_to)}
                  /\ Total(karma_cache', old.given_to) # {}]_vars

\* A revote was committed.
C4_Witness ==
    \E e \in 1..Len(timeline) :
        /\ req[e].outcome = "updated"
        /\ \E x \in OwnRows(karma, e) : x.given_from < e /\ x.value = timeline[e].value

\* C5: a vote that finds the voter's row on the subject with the same value is
\* answered as a duplicate and leaves both tables as they were.
C5_DuplicateIsIdempotent ==
    [][\A e \in 1..Len(timeline) :
          (/\ Resolves(e)
           /\ \E x \in OwnRows(karma, e) : x.value = timeline[e].value)
          => /\ req'[e].outcome = "duplicate"
             /\ req'[e].pc = "done"
             /\ karma' = karma
             /\ karma_cache' = karma_cache]_vars

\* The same vote was cast twice: the second was answered as a duplicate.
C5_Witness ==
    \E e \in 1..Len(timeline) :
        /\ req[e].outcome = "duplicate"
        /\ \E x \in OwnRows(karma, e) :
              /\ x.value = timeline[e].value
              /\ x.given_from < e
              /\ timeline[x.given_from].value = timeline[e].value

\* C6: the ledger holds at most one row per key (given_to, given_by,
\* given_in, given_for).
C6_OneRowPerKey ==
    \A x \in karma : \A y \in karma : SameKey(x, y) => x = y

\* A second vote by the same voter on the same subject was handled, and the
\* voter has one row on the subject.
C6_Witness ==
    \E e \in 1..Len(timeline) :
        /\ req[e].outcome \in {"updated", "duplicate"}
        /\ Cardinality(OwnRows(karma, e)) = 1

\* C7: a vote in reply to an event that is the origin of a row is rejected
\* when vote checks it, whatever democracy and filter are, and changes
\* neither table.
C7_NoVoteOnVote ==
    [][\A e \in 1..Len(timeline) :
          (/\ Starts(e)
           /\ \E x \in karma : {x.given_from} = timeline[e].reply_to)
          => /\ req'[e].pc = "done"
             /\ req'[e].outcome \in {"not_allowed", "vote_on_vote"}
             /\ karma' = karma
             /\ karma_cache' = karma_cache]_vars

\* A vote on a vote by a voter the filter lets through was rejected.
C7_Witness ==
    \E e \in 1..Len(timeline) :
        /\ req[e].outcome = "vote_on_vote"
        /\ \E x \in karma : {x.given_from} = timeline[e].reply_to

\* C9: once the redaction of event e has been processed, no row has the
\* origin e.
C9_RedactionDeletesRow ==
    [][\A e \in redacted' \ redacted :
          ~\E x \in karma' : x.given_from = e]_vars

\* C10: when two votes for the same recipient R by different voters or on
\* different subjects have both committed, both rows are in the ledger and
\* R's total is the sum of the values of R's rows.
C10_NoLostUpdate ==
    \A e1 \in 1..Len(timeline) : \A e2 \in 1..Len(timeline) :
        (/\ e1 # e2
         /\ req[e1].outcome = "inserted"
         /\ req[e2].outcome = "inserted")
        => /\ \E x \in karma : x.given_from = e1
           /\ \E y \in karma : y.given_from = e2
           /\ \A R \in Users :
                 (\E x \in karma : x.given_to = R /\ x.given_from \in {e1, e2})
                 => Total(karma_cache, R) = {SumValues(KarmaAll(karma, R))}

\* Two votes for the same recipient have both committed while both handlers
\* were still running.
C10_Witness ==
    \E e1 \in 1..Len(timeline) : \E e2 \in 1..Len(timeline) :
        /\ e1 # e2
        /\ req[e1].outcome = "inserted" /\ req[e1].pc = "mark_read"
        /\ req[e2].outcome = "inserted" /\ req[e2].pc = "mark_read"
        /\ \E x \in karma : \E y \in karma :
              /\ x.given_from = e1
              /\ y.given_from = e2
              /\ x.given_to = y.given_to
              /\ Total(karma_cache, x.given_to) = {x.value + y.value}

\* C11: a KarmaCache.recalculate(R) that ends normally leaves R one cache row
\* holding the sum of the values of the rows given to R, whatever get_karma(R)
\* returned before (a number or None), and changes neither table karma nor
\* the cache row of any other user.
C11_RecalculateRestores ==
    [][(CallStep /\ last'.op = "recalculate" /\ ~last'.raised) =>
          LET R == last'.new_value
          IN /\ last'.before = get_karma(karma_cache, R)
             /\ get_karma(karma_cache', R) = {SumValues(KarmaAll(karma, R))}
             /\ Cardinality({x \in karma_cache' : x.user_id = R}) = 1
             /\ karma' = karma
             /\ {x \in karma_cache' : x.user_id # R}
                    = {x \in karma_cache : x.user_id # R}]_vars

\* A recalculate has replaced a total that was not the sum of the ledger.
C11_Witness ==
    /\ last.op = "recalculate"
    /\ ~last.raised
    /\ last.before # {}
    /\ last.before # {SumValues(KarmaAll(karma, last.new_value))}
    /\ get_karma(karma_cache, last.new_value) = {SumValues(KarmaAll(karma, last.new_value))}

\* The rows of the cache with more karma than the user's, and those with the
\* same.
Above(cache, user_id) ==
    {x \in cache : \E t \in get_karma(cache, user_id) : x.karma > t}

Tied(cache, user_id) ==
    {x \in cache : x.user_id # user_id /\ x.karma \in get_karma(cache, user_id)}

\* C12: find_index_from_top(R) returns -1 when R has no cache row; when R has
\* one and no other row holds the same karma it returns k + 1, k being the
\* number of rows with more karma, so 1 for the only highest row.
C12_IndexFromTop ==
    \A R \in Users :
        /\ get_karma(karma_cache, R) = {} =>
              find_index_from_top(karma_cache, R) = {-1}
        /\ (get_karma(karma_cache, R) # {} /\ Tied(karma_cache, R) = {}) =>
              find_index_from_top(karma_cache, R)
                  = {Cardinality(Above(karma_cache, R)) + 1}
        /\ (get_karma(karma_cache, R) # {} /\ Tied(karma_cache, R) = {}
              /\ Above(karma_cache, R) = {}) =>
              find_index_from_top(karma_cache, R) = {1}

\* Two users hold different totals: one is found first, the other second.
C12_Witness ==
    \E R, S \in Users :
        /\ get_karma(karma_cache, R) # {}
        /\ Above(karma_cache, S) = {x \in karma_cache : x.user_id = R}
        /\ find_index_from_top(karma_cache, R) = {1}
        /\ find_index_from_top(karma_cache, S) = {2}

\* C13: a user no row of table karma was ever given to has no cache row, in
\* every state insert, update, delete and recalculate lead to.
C13_NoRowWithoutVote ==
    \A R \in Users \ ever_voted : get_karma(karma_cache, R) = {}

\* C14: no step removes a user's cache row: a user who has a row before a
\* step has one after it, whatever the row holds, whatever is left in table
\* karma, and also when the step is a recalculate, which deletes the row and
\* inserts it again.
C14_CacheRowStays ==
    [][\A R \in Users : get_karma(karma_cache, R) # {} => get_karma(karma_cache', R) # {}]_vars

\* A recalculate raised between its delete and its insert, and the row it
\* had deleted is there; or it ended normally with no vote left and the row
\* holds 0.
C14_Witness ==
    /\ last.op = "recalculate"
    /\ last.before # {}
    /\ KarmaAll(karma, last.new_value) = {}
    /\ \/ last.raised /\ last.fault = "cache"
             /\ get_karma(karma_cache, last.new_value) = last.before
       \/ ~last.raised /\ get_karma(karma_cache, last.new_value) = {0}

\* The filter excludes the user: democracy makes the filter a list of the
\* excluded, its absence a list of the admitted.
Excluded(u) ==
    IF democracy THEN u \in filter ELSE u \notin filter

\* C15: a vote that replies to an event is answered "not allowed" exactly when
\* config["democracy"] equals (sender in config["filter"]), that is when the
\* filter excludes its sender; and no row of table karma was given by an
\* excluded user, whose requests neither insert nor update.
C15_FilterPolicy ==
    /\ \A e \in 1..Len(timeline) :
          (req[e].pc \notin {"none", "vote"} /\ timeline[e].reply_to # {}) =>
              /\ (req[e].outcome = "not_allowed")
                     <=> (democracy = (timeline[e].sender \in filter))
              /\ (req[e].outcome = "not_allowed") <=> Excluded(timeline[e].sender)
    /\ \A e \in 1..Len(timeline) :
          Excluded(timeline[e].sender) => req[e].outcome \notin {"inserted", "updated"}
    /\ \A x \in karma : ~Excluded(x.given_by)

\* Without democracy a user outside the filter was refused, while the vote of
\* a user inside it was recorded.
C15_Witness ==
    /\ ~democracy
    /\ \E e \in 1..Len(timeline) :
          /\ timeline[e].sender \notin filter
          /\ req[e].outcome = "not_allowed"
    /\ \E x \in karma : x.given_by \in filter

\* C16: no row of table karma has given_to = given_by and a value above 0;
\* the reply "can't upvote yourself" is given to upvotes of one's own event
\* only, and an upvote of one's own event gets that reply once the event is
\* resolved; a downvote of one's own event goes on to the lookup.
C16_NoSelfUpvote ==
    /\ \A x \in karma : ~(x.given_to = x.given_by /\ x.value > 0)
    /\ \A e \in 1..Len(timeline) :
          /\ req[e].outcome = "self_upvote" =>
                /\ timeline[e].value > 0
                /\ \E kt \in TargetOf(e) : kt.sender = timeline[e].sender
          /\ (req[e].pc \in {"done", "mark_read", "read"}
                /\ req[e].outcome \notin {"no_target", "not_allowed", "vote_on_vote"}
                /\ \E kt \in TargetOf(e) : kt.sender = timeline[e].sender) =>
                IF timeline[e].value > 0
                THEN req[e].outcome = "self_upvote"
                ELSE req[e].outcome \in {"inserted", "updated", "duplicate", "failed"}

\* An upvote of one's own event was refused, and a downvote of one's own event
\* is in the table.
C16_Witness ==
    /\ \E e \in 1..Len(timeline) : req[e].outcome = "self_upvote"
    /\ \E x \in karma : x.given_to = x.given_by /\ x.value < 0

\* The outcomes of a vote that is refused, finds nothing to do, or fails.
Rejections ==
    {"no_target", "not_allowed", "vote_on_vote", "not_found", "self_upvote",
     "duplicate", "failed"}

\* C17: a step in which a vote ends with any outcome but an insert or an
\* update that committed leaves table karma and table karma_cache as they
\* were; the tables change only in a step in which a vote inserts or updates.
C17_RejectionsChangeNothing ==
    [][/\ \A e \in 1..Len(timeline) :
             (req'[e] # req[e] /\ req'[e].outcome \in Rejections) =>
                 /\ karma' = karma
                 /\ karma_cache' = karma_cache
       /\ (karma' # karma \/ karma_cache' # karma_cache) =>
             \E e \in 1..Len(timeline) :
                 /\ Resolves(e)
                 /\ req'[e].outcome \in {"inserted", "updated"}]_vars

\* With a row in the table, one vote found no event to vote on and another
\* was cast already, after the clock moved.
C17_Witness ==
    /\ \E e \in 1..Len(timeline) : req[e].outcome = "not_found"
    /\ \E e \in 1..Len(timeline) :
          /\ req[e].outcome = "duplicate"
          /\ \E x \in OwnRows(karma, e) : x.given_at < clock

\* C18: the rank view_karma and view_own_karma report for a user with karma
\* is the value find_index_from_top returned, so 1 for the only highest
\* total.
C18_ReportedRank ==
    /\ \A R \in Users : \A reply \in view_karma(karma_cache, R) :
          ~reply.no_karma =>
              /\ reply.shown = {reply.index}
              /\ (Above(karma_cache, R) = {} /\ Tied(karma_cache, R) = {}) =>
                    reply.shown = {1}
    /\ \A e \in 1..Len(timeline) : \A reply \in view_own_karma(karma_cache, timeline[e]) :
          ~reply.no_karma => reply.shown = {reply.index}

\* C19: vote has called evt.mark_read() for exactly the requests whose insert
\* or update committed: for none that was refused, found its vote cast
\* already, found no event, or whose transaction raised, and for every one
\* that inserted or updated, whose row is in table karma from then on.
C19_MarkReadAfterCommit ==
    \A e \in 1..Len(timeline) :
        /\ req[e].pc \in {"mark_read", "read"} <=> req[e].outcome \in {"inserted", "updated"}
        /\ req[e].pc \in {"mark_read", "read"} => OwnRows(karma, e) # {}
        /\ req[e].outcome = "inserted" => \E x \in karma : x.given_from = e

\* One request was marked read after its update, while another, refused or
\* failed, has ended without.
C19_Witness ==
    /\ \E e \in 1..Len(timeline) : req[e].pc = "read" /\ req[e].outcome = "updated"
    /\ \E e \in 1..Len(timeline) : req[e].pc = "done" /\ req[e].outcome \in Rejections

Revotes(e) ==
    /\ e \in 1..Len(timeline)
    /\ req[e].outcome # "updated"
    /\ req'[e].outcome = "updated"

====
